---- MODULE Spec2Model ----
(***************************************************************************)
(* Model of simple-undo's Undo<TState> (src/src/lib.rs): a wrapper that    *)
(* records every update closure and regenerates the current state by       *)
(* replaying a prefix of the recorded updates.                             *)
(*                                                                         *)
(* TState is the Counter { count: u64 } of the test module; the update     *)
(* closures are the ones the tests pass: |c| c.count = k and               *)
(* |c| c.count += k.  A closure is modelled by what it does to the state.  *)
(***************************************************************************)
EXTENDS Integers, Sequences, FiniteSets, TLC

\* Longest log of recorded updates explored.
MaxUpdates == 4

\* Initial states handed to Undo::new (tests use 0 and 3).
InitStates == {0, 3}

\* The update closures explored: c.count = 5, c.count += 3, c.count += 2
\* (all taken from the tests).
UpdateFns ==
    { [kind |-> "set", arg |-> 5],
      [kind |-> "add", arg |-> 3],
      [kind |-> "add", arg |-> 2] }

\* Calls to undo counted in a row after the cursor has reached 0.
ExtraUndos == 2

\* The result of unwrap while the container is still alive: no value yet.
NotUnwrapped == <<>>

VARIABLES
    initial_state,   \* Undo::initial_state
    current_state,   \* Undo::current_state
    updates,         \* Undo::updates, the recorded closures in call order
    nb_updates,      \* Undo::nb_updates, number of updates applied
    unwrapped,       \* <<value returned by unwrap>>, NotUnwrapped while alive
    last,            \* name of the most recent call
    arg,             \* <<closure passed to the most recent call>>, <<>> if none
    undone,          \* <<state the closure undone by the most recent call had been applied to>>
    prev,            \* fields of the container just before the most recent call
    last2,           \* name of the call before the most recent one
    prev2,           \* fields of the container just before that call
    before,          \* before[i], i <= nb_updates: current_state just before updates[i] was last applied
    truncated,       \* TRUE from a truncating update until the next undo call
    fresh_run,       \* TRUE while only update has been called since new
    given,           \* closures passed to update, in call order, while fresh_run
    supplied,        \* the state passed to Undo::new
    net_undos,       \* undos minus redos that took effect since the latest update
    undo_stack,      \* fields before each of the undos in a row not yet matched by a redo
    matched,         \* <<fields before the undo that the most recent redo matches>>
    run_start,       \* <<fields before the first of the undo calls in a row>>
    run_len          \* number of undo calls in a row, counted up to a cap

vars   == <<initial_state, current_state, updates, nb_updates, unwrapped,
            last, arg, undone, prev, last2, prev2, before, truncated, fresh_run, given,
            supplied, net_undos, undo_stack, matched, run_start, run_len>>

\* Invoking a stored closure on a state: update_fn(&mut state).
call(update_fn, state) ==
    IF update_fn.kind = "set" THEN update_fn.arg ELSE state + update_fn.arg

\* The loop of undo: for update_fn in fns.iter() { update_fn(&mut state) }.
RECURSIVE replay(_, _)
replay(state, fns) ==
    IF fns = <<>> THEN state
    ELSE replay(call(Head(fns), state), Tail(fns))

\* Vec::truncate(len): keeps the first len elements, no effect if len >= Len.
truncate(vec, len) ==
    IF len >= Len(vec) THEN vec ELSE SubSeq(vec, 1, len)

\* The fields of the container as one record.
Snapshot ==
    [ initial_state |-> initial_state,
      current_state |-> current_state,
      updates       |-> updates,
      nb_updates    |-> nb_updates ]

\* Bookkeeping common to every call: remember the call, the fields before it
\* and where it stands in a run of undo and redo calls.  It reads
\* nb_updates', so a call sets nb_updates' first.
Record(name, fns) ==
    /\ last'  = name
    /\ arg'   = fns
    /\ prev'  = Snapshot
    /\ last2' = last
    /\ prev2' = prev
    /\ supplied' = supplied
    /\ net_undos' =
           IF name = "update" THEN 0
           ELSE IF name = "undo" /\ nb_updates' < nb_updates THEN net_undos + 1
           ELSE IF name = "redo" /\ nb_updates' > nb_updates THEN net_undos - 1
           ELSE net_undos
    /\ undo_stack' =
           IF name = "undo" /\ nb_updates' < nb_updates
           THEN IF last = "undo" THEN Append(undo_stack, Snapshot) ELSE <<Snapshot>>
           ELSE IF name = "redo" /\ undo_stack # <<>>
           THEN SubSeq(undo_stack, 1, Len(undo_stack) - 1)
           ELSE <<>>
    /\ matched' =
           IF name = "redo" /\ undo_stack # <<>>
           THEN <<undo_stack[Len(undo_stack)]>>
           ELSE <<>>
    /\ run_start' =
           IF name = "undo"
           THEN IF last = "undo" THEN run_start ELSE <<Snapshot>>
           ELSE <<>>
    /\ run_len' =
           IF name = "undo"
           THEN IF last = "undo"
                THEN IF run_len < MaxUpdates + ExtraUndos THEN run_len + 1 ELSE run_len
                ELSE 1
           ELSE 0

\* Variant of new that starts current_state from the default Counter
\* instead of a clone of the given state.
new_default_current(state) ==
    /\ current_state = 0
    /\ initial_state = state
    /\ updates = <<>>
    /\ nb_updates = 0

\* Undo::new(state)
new(state) ==
    /\ current_state = state
    /\ initial_state = state
    /\ updates = <<>>
    /\ nb_updates = 0

Init ==
    /\ \E state \in InitStates : supplied = state /\ new(state)
    /\ net_undos = 0
    /\ undo_stack = <<>>
    /\ matched = <<>>
    /\ run_start = <<>>
    /\ run_len = 0
    /\ unwrapped = NotUnwrapped
    /\ last = "new"
    /\ arg = <<>>
    /\ undone = <<>>
    /\ last2 = "new"
    /\ prev = Snapshot
    /\ prev2 = Snapshot
    /\ before = <<>>
    /\ truncated = FALSE
    /\ fresh_run = TRUE
    /\ given = <<>>

\* Variant of update that omits the truncate call.
update_no_truncate(update_fn) ==
    /\ unwrapped = NotUnwrapped
    /\ Len(updates) < MaxUpdates
    /\ current_state' = call(update_fn, current_state)
    /\ updates' = Append(updates, update_fn)
    /\ nb_updates' = nb_updates + 1
    /\ before' = Append(before, current_state)
    /\ truncated' = (truncated \/ nb_updates # Len(updates))
    /\ given' = IF fresh_run THEN Append(given, update_fn) ELSE given
    /\ undone' = <<>>
    /\ Record("update", <<update_fn>>)
    /\ UNCHANGED <<initial_state, unwrapped, fresh_run>>

\* Variant of update that truncates to nb_updates - 1.
update_truncate_off_by_one(update_fn) ==
    LET kept == IF nb_updates # Len(updates)
                THEN truncate(updates, nb_updates - 1)
                ELSE updates
    IN  /\ unwrapped = NotUnwrapped
        /\ Len(kept) < MaxUpdates
        /\ current_state' = call(update_fn, current_state)
        /\ updates' = Append(kept, update_fn)
        /\ nb_updates' = nb_updates + 1
        /\ before' = Append(before, current_state)
        /\ truncated' = (truncated \/ nb_updates # Len(updates))
        /\ given' = IF fresh_run THEN Append(given, update_fn) ELSE given
        /\ undone' = <<>>
        /\ Record("update", <<update_fn>>)
        /\ UNCHANGED <<initial_state, unwrapped, fresh_run>>

\* Variant of update that drops the first recorded closure instead of the
\* closures after the cursor when it truncates.
update_drops_front(update_fn) ==
    LET kept == IF nb_updates # Len(updates)
                THEN SubSeq(updates, Len(updates) - nb_updates + 1, Len(updates))
                ELSE updates
    IN  /\ unwrapped = NotUnwrapped
        /\ Len(kept) < MaxUpdates
        /\ current_state' = call(update_fn, current_state)
        /\ updates' = Append(kept, update_fn)
        /\ nb_updates' = nb_updates + 1
        /\ before' = Append(before, current_state)
        /\ truncated' = (truncated \/ nb_updates # Len(updates))
        /\ given' = IF fresh_run THEN Append(given, update_fn) ELSE given
        /\ undone' = <<>>
        /\ Record("update", <<update_fn>>)
        /\ UNCHANGED <<initial_state, unwrapped, fresh_run>>

\* Variant of update that invokes the closure on a copy of initial_state.
update_applies_to_initial(update_fn) ==
    LET kept == IF nb_updates # Len(updates)
                THEN truncate(updates, nb_updates)
                ELSE updates
    IN  /\ unwrapped = NotUnwrapped
        /\ Len(kept) < MaxUpdates
        /\ current_state' = call(update_fn, initial_state)
        /\ updates' = Append(kept, update_fn)
        /\ nb_updates' = nb_updates + 1
        /\ before' = Append(before, current_state)
        /\ truncated' = (truncated \/ nb_updates # Len(updates))
        /\ given' = IF fresh_run THEN Append(given, update_fn) ELSE given
        /\ undone' = <<>>
        /\ Record("update", <<update_fn>>)
        /\ UNCHANGED <<initial_state, unwrapped, fresh_run>>

\* Undo::update(update_fn)
update(update_fn) ==
    LET kept == IF nb_updates # Len(updates)
                THEN truncate(updates, nb_updates)
                ELSE updates
    IN  /\ unwrapped = NotUnwrapped
        /\ Len(kept) < MaxUpdates
        /\ current_state' = call(update_fn, current_state)
        /\ updates' = Append(kept, update_fn)
        /\ nb_updates' = nb_updates + 1
        /\ before' = Append(before, current_state)
        /\ truncated' = (truncated \/ nb_updates # Len(updates))
        /\ given' = IF fresh_run THEN Append(given, update_fn) ELSE given
        /\ undone' = <<>>
        /\ Record("update", <<update_fn>>)
        /\ UNCHANGED <<initial_state, unwrapped, fresh_run>>

\* Variant of undo that replays updates[..=nb_updates] (one closure too many).
undo_replays_one_more ==
    /\ unwrapped = NotUnwrapped
    /\ IF nb_updates = 0
       THEN /\ undone' = <<>>
            /\ UNCHANGED <<current_state, nb_updates, before>>
       ELSE /\ nb_updates' = nb_updates - 1
            /\ current_state' =
                   replay(initial_state, SubSeq(updates, 1, nb_updates))
            /\ before' = SubSeq(before, 1, nb_updates - 1)
            /\ undone' = <<before[nb_updates]>>
    /\ truncated' = FALSE
    /\ fresh_run' = FALSE
    /\ given' = <<>>
    /\ Record("undo", <<>>)
    /\ UNCHANGED <<initial_state, updates, unwrapped>>

\* Variant of undo whose early return tests self.updates.is_empty().
undo_checks_log_len ==
    /\ unwrapped = NotUnwrapped
    /\ IF Len(updates) = 0
       THEN /\ undone' = <<>>
            /\ UNCHANGED <<current_state, nb_updates, before>>
       ELSE /\ nb_updates' = nb_updates - 1
            /\ current_state' =
                   replay(initial_state, SubSeq(updates, 1, nb_updates - 1))
            /\ before' = SubSeq(before, 1, nb_updates - 1)
            /\ undone' = IF nb_updates > 0 THEN <<before[nb_updates]>> ELSE <<>>
    /\ truncated' = FALSE
    /\ fresh_run' = FALSE
    /\ given' = <<>>
    /\ Record("undo", <<>>)
    /\ UNCHANGED <<initial_state, updates, unwrapped>>

\* Variant of undo that replays onto initial_state itself, without cloning.
undo_replays_in_place ==
    /\ unwrapped = NotUnwrapped
    /\ IF nb_updates = 0
       THEN /\ undone' = <<>>
            /\ UNCHANGED <<current_state, initial_state, nb_updates, before>>
       ELSE /\ nb_updates' = nb_updates - 1
            /\ initial_state' =
                   replay(initial_state, SubSeq(updates, 1, nb_updates - 1))
            /\ current_state' = initial_state'
            /\ before' = SubSeq(before, 1, nb_updates - 1)
            /\ undone' = <<before[nb_updates]>>
    /\ truncated' = FALSE
    /\ fresh_run' = FALSE
    /\ Record("undo", <<>>)
    /\ given' = <<>>
    /\ UNCHANGED <<updates, unwrapped>>

\* Variant of undo that removes the undone closure from the log.
undo_pops_log ==
    /\ unwrapped = NotUnwrapped
    /\ IF nb_updates = 0
       THEN /\ undone' = <<>>
            /\ UNCHANGED <<current_state, nb_updates, before, updates>>
       ELSE /\ nb_updates' = nb_updates - 1
            /\ current_state' =
                   replay(initial_state, SubSeq(updates, 1, nb_updates - 1))
            /\ updates' = truncate(updates, nb_updates - 1)
            /\ before' = SubSeq(before, 1, nb_updates - 1)
            /\ undone' = <<before[nb_updates]>>
    /\ truncated' = FALSE
    /\ fresh_run' = FALSE
    /\ Record("undo", <<>>)
    /\ given' = <<>>
    /\ UNCHANGED <<initial_state, unwrapped>>

\* Undo::undo()
undo ==
    /\ unwrapped = NotUnwrapped
    /\ IF nb_updates = 0
       THEN /\ undone' = <<>>
            /\ UNCHANGED <<current_state, nb_updates, before>>
       ELSE /\ nb_updates' = nb_updates - 1
            /\ current_state' =
                   replay(initial_state, SubSeq(updates, 1, nb_updates - 1))
            /\ before' = SubSeq(before, 1, nb_updates - 1)
            /\ undone' = <<before[nb_updates]>>
    /\ truncated' = FALSE
    /\ fresh_run' = FALSE
    /\ Record("undo", <<>>)
    /\ given' = <<>>
    /\ UNCHANGED <<initial_state, updates, unwrapped>>

\* Variant of redo that invokes the last recorded closure, not the one at
\* the cursor.
redo_wrong_index ==
    /\ unwrapped = NotUnwrapped
    /\ IF nb_updates = Len(updates)
       THEN UNCHANGED <<current_state, nb_updates, before>>
       ELSE /\ current_state' = call(updates[Len(updates)], current_state)
            /\ nb_updates' = nb_updates + 1
            /\ before' = Append(before, current_state)
    /\ fresh_run' = FALSE
    /\ given' = <<>>
    /\ undone' = <<>>
    /\ Record("redo", <<>>)
    /\ UNCHANGED <<initial_state, updates, unwrapped, truncated>>

\* Variant of redo whose early return tests self.updates.is_empty() and that
\* invokes the last recorded closure again when the cursor is at the end.
redo_reapplies_last ==
    /\ unwrapped = NotUnwrapped
    /\ IF Len(updates) = 0
       THEN UNCHANGED <<current_state, nb_updates, before>>
       ELSE IF nb_updates = Len(updates)
       THEN /\ current_state' = call(updates[Len(updates)], current_state)
            /\ UNCHANGED <<nb_updates, before>>
       ELSE /\ current_state' = call(updates[nb_updates + 1], current_state)
            /\ nb_updates' = nb_updates + 1
            /\ before' = Append(before, current_state)
    /\ fresh_run' = FALSE
    /\ given' = <<>>
    /\ undone' = <<>>
    /\ Record("redo", <<>>)
    /\ UNCHANGED <<initial_state, updates, unwrapped, truncated>>

\* Variant of redo that re-applies every undone closure, up to the end of
\* the log.
redo_to_end ==
    /\ unwrapped = NotUnwrapped
    /\ IF nb_updates = Len(updates)
       THEN UNCHANGED <<current_state, nb_updates, before>>
       ELSE /\ current_state' =
                   replay(current_state, SubSeq(updates, nb_updates + 1, Len(updates)))
            /\ nb_updates' = Len(updates)
            /\ before' = [i \in 1..Len(updates) |->
                             IF i <= nb_updates THEN before[i]
                             ELSE replay(current_state,
                                         SubSeq(updates, nb_updates + 1, i - 1))]
    /\ fresh_run' = FALSE
    /\ undone' = <<>>
    /\ Record("redo", <<>>)
    /\ given' = <<>>
    /\ UNCHANGED <<initial_state, updates, unwrapped, truncated>>

\* Undo::redo()
redo ==
    /\ unwrapped = NotUnwrapped
    /\ IF nb_updates = Len(updates)
       THEN UNCHANGED <<current_state, nb_updates, before>>
       ELSE /\ current_state' = call(updates[nb_updates + 1], current_state)
            /\ nb_updates' = nb_updates + 1
            /\ before' = Append(before, current_state)
    /\ fresh_run' = FALSE
    /\ undone' = <<>>
    /\ Record("redo", <<>>)
    /\ given' = <<>>
    /\ UNCHANGED <<initial_state, updates, unwrapped, truncated>>

\* Deref::deref(): the value read through *wrapper.
deref == current_state

\* Variant of unwrap that returns the state with every recorded closure
\* applied.
unwrap_replays_all ==
    /\ unwrapped = NotUnwrapped
    /\ unwrapped' = <<replay(initial_state, updates)>>
    /\ undone' = <<>>
    /\ UNCHANGED <<initial_state, current_state, updates, nb_updates,
                   before, truncated, fresh_run, given>>
    /\ Record("unwrap", <<>>)

\* Undo::unwrap(self)
unwrap ==
    /\ unwrapped = NotUnwrapped
    /\ unwrapped' = <<current_state>>
    /\ undone' = <<>>
    /\ UNCHANGED <<initial_state, current_state, updates, nb_updates,
                   before, truncated, fresh_run, given>>
    /\ Record("unwrap", <<>>)

Next ==
    \/ \E update_fn \in UpdateFns : update(update_fn)
    \/ undo
    \/ redo
    \/ unwrap

Spec == Init /\ [][Next]_vars

(***************************************************************************)
(* Properties                                                              *)
(***************************************************************************)

\* current_state, nb_updates and updates are what they are in the snapshot.
SameAsIn(snapshot) ==
    /\ current_state = snapshot.current_state
    /\ nb_updates = snapshot.nb_updates
    /\ updates = snapshot.updates

\* Applying closures one after the other to a state, the last one last.
RECURSIVE ApplyDirectly(_, _)
ApplyDirectly(state, fns) ==
    IF Len(fns) = 0 THEN state
    ELSE call(fns[Len(fns)], ApplyDirectly(state, SubSeq(fns, 1, Len(fns) - 1)))

\* C1: in every reachable state current_state is the result of applying
\* updates[0..nb_updates) in order to a copy of initial_state.
C1_ReplayInvariant ==
    current_state = ApplyDirectly(initial_state, SubSeq(updates, 1, nb_updates))

\* C1 witness: a redo has re-applied a closure in the middle of the log, on
\* a state that differs from the initial one.
C1_Witness ==
    /\ last = "redo"
    /\ prev.nb_updates + 1 = nb_updates
    /\ 1 < nb_updates
    /\ nb_updates < Len(updates)
    /\ current_state # initial_state

\* C2: update followed by undo brings current_state back to its value before
\* the update; and an undo with nb_updates > 0 sets current_state to the
\* value it had just before the most recently applied closure was applied.
C2_UndoRestoresPrevious ==
    /\ (last2 = "update" /\ last = "undo") => current_state = prev2.current_state
    /\ (last = "undo" /\ prev.nb_updates > 0) => <<current_state>> = undone

\* C2 witness: an undo right after a redo has taken back a closure that
\* changed the state.
C2_Witness ==
    /\ last2 = "redo"
    /\ last = "undo"
    /\ prev.nb_updates > 1
    /\ prev.current_state # current_state

\* C3 as stated: whenever the log is non-empty, undo followed immediately
\* by redo leaves current_state equal to its value before the pair.
C3_Original ==
    (last2 = "undo" /\ last = "redo" /\ Len(prev2.updates) > 0)
        => current_state = prev2.current_state

\* C3 amended: whenever nb_updates > 0, undo followed immediately by redo
\* leaves current_state equal to its value before the pair.
C3_UndoRedoPair ==
    (last2 = "undo" /\ last = "redo" /\ prev2.nb_updates > 0)
        => current_state = prev2.current_state

\* C3 witness: an undo and redo pair was made from the middle of the log and
\* the undo changed the state.
C3_Witness ==
    /\ last2 = "undo"
    /\ last = "redo"
    /\ prev2.nb_updates > 0
    /\ prev2.nb_updates < Len(prev2.updates)
    /\ prev.current_state # prev2.current_state

\* C4: after an update made with the cursor not at the end (some updates
\* undone), every redo made before the next undo leaves current_state,
\* nb_updates and updates unchanged.
C4_RedoAfterEditIsNoOp ==
    (truncated /\ last = "redo") => SameAsIn(prev)

\* C4 witness: two redo calls in a row follow an update that discarded
\* undone closures.
C4_Witness ==
    /\ truncated
    /\ last = "redo"
    /\ last2 = "redo"
    /\ prev2.nb_updates = Len(prev2.updates)

\* C5: with nb_updates = 0, undo leaves current_state, nb_updates and
\* updates unchanged, also when called several times in a row.
C5_UndoAtStartIsNoOp ==
    /\ (last = "undo" /\ prev.nb_updates = 0) => SameAsIn(prev)
    /\ (last2 = "undo" /\ last = "undo" /\ prev2.nb_updates = 0) => SameAsIn(prev2)

\* C5 witness: undo was called twice in a row on a fully undone container
\* that still holds recorded closures.
C5_Witness ==
    /\ last2 = "undo"
    /\ last = "undo"
    /\ prev2.nb_updates = 0
    /\ Len(updates) > 0

\* C6: with nb_updates = len(updates), redo leaves current_state, nb_updates
\* and updates unchanged, also when called several times in a row.
C6_RedoAtEndIsNoOp ==
    /\ (last = "redo" /\ prev.nb_updates = Len(prev.updates)) => SameAsIn(prev)
    /\ (last2 = "redo" /\ last = "redo" /\ prev2.nb_updates = Len(prev2.updates))
           => SameAsIn(prev2)

\* C6 witness: redo was called twice in a row with the cursor at the end of
\* a non-empty log.
C6_Witness ==
    /\ last2 = "redo"
    /\ last = "redo"
    /\ prev2.nb_updates = Len(prev2.updates)
    /\ Len(prev2.updates) > 1

\* C7: after N update calls on a fresh container, with no undo or redo in
\* between, current_state is the result of applying the N closures
\* directly, in order, to a copy of the initial state.
C7_UpdatesEqualDirectApplication ==
    fresh_run => current_state = ApplyDirectly(initial_state, given)

\* C7 witness: several updates, whose order matters, were made on a fresh
\* container.
C7_Witness ==
    /\ fresh_run
    /\ last = "update"
    /\ Len(given) >= 3
    /\ given[1].kind = "add"
    /\ given[2].kind = "set"
    /\ given[3].kind = "add"

\* C8: after every update call nb_updates = len(updates) = nb_updates before
\* the call + 1.
C8_UpdatePostcondition ==
    last = "update" =>
        /\ nb_updates = Len(updates)
        /\ nb_updates = prev.nb_updates + 1

\* C8 witness: an update made the log shorter.
C8_Witness ==
    /\ last = "update"
    /\ Len(updates) < Len(prev.updates)

\* C9: in every reachable state 0 <= nb_updates <= len(updates).
C9_CursorInBounds ==
    /\ 0 <= nb_updates
    /\ nb_updates <= Len(updates)

\* C9 witness: an update was made with the cursor strictly inside the log.
C9_Witness ==
    /\ last = "update"
    /\ 0 < prev.nb_updates
    /\ prev.nb_updates + 1 < Len(prev.updates)

\* C10: update(op) called with nb_updates = k makes the log the old
\* updates[0..k), in their order, followed by op.
C10_UpdateKeepsPrefix ==
    last = "update" =>
        updates = SubSeq(prev.updates, 1, prev.nb_updates) \o arg

\* C10 witness: an update discarded closures after the cursor and kept a
\* non-empty prefix whose closures are not all the same.
C10_Witness ==
    /\ last = "update"
    /\ prev.nb_updates = 2
    /\ Len(prev.updates) > 2
    /\ prev.updates[1] # prev.updates[2]
    /\ prev.updates[3] # arg[1]

\* C11: unwrap returns the value of current_state that deref showed at the
\* moment of the call, in every reachable state, with no closure applied or
\* replayed on the way.
C11_UnwrapReturnsCurrent ==
    last = "unwrap" =>
        /\ unwrapped = <<prev.current_state>>
        /\ unwrapped = <<deref>>

\* C11 witness: unwrap was called right after an undo that left closures
\* to redo.
C11_Witness ==
    /\ last = "unwrap"
    /\ last2 = "undo"
    /\ 0 < nb_updates
    /\ nb_updates < Len(updates)
    /\ replay(initial_state, updates) # current_state

\* C12: initial_state equals the value given at construction in every
\* reachable state.
C12_InitialStateFrozen ==
    initial_state = supplied

\* C12 witness: update, undo and redo have all been called and the current
\* state differs from the initial one.
C12_Witness ==
    /\ last = "redo"
    /\ last2 = "undo"
    /\ Len(updates) > 1
    /\ current_state # initial_state
    /\ prev.current_state # initial_state

\* C13: right after construction with state s, initial_state = s,
\* current_state = s, the log is empty and nb_updates = 0.
C13_Construction ==
    last = "new" =>
        /\ initial_state = supplied
        /\ current_state = supplied
        /\ updates = <<>>
        /\ nb_updates = 0

\* C13 witness: a container was just constructed with a state other than
\* the default one.
C13_Witness ==
    /\ last = "new"
    /\ supplied # 0

\* C14: undo and redo never change the log; only update changes it.
C14_OnlyUpdateChangesLog ==
    /\ last \in {"undo", "redo"} => updates = prev.updates
    /\ updates # prev.updates => last = "update"

\* C14 witness: an undo and a redo that both took effect left a log of
\* several closures as it was.
C14_Witness ==
    /\ last2 = "undo"
    /\ last = "redo"
    /\ prev2.nb_updates = prev.nb_updates + 1
    /\ nb_updates = prev.nb_updates + 1
    /\ Len(updates) > 2
    /\ updates = prev2.updates

\* C15: with nb_updates < len(updates), redo sets current_state to the
\* closure at the old cursor applied once to the previous current_state,
\* and adds exactly 1 to nb_updates.
C15_RedoAppliesNext ==
    (last = "redo" /\ prev.nb_updates < Len(prev.updates)) =>
        /\ current_state = call(prev.updates[prev.nb_updates + 1], prev.current_state)
        /\ nb_updates = prev.nb_updates + 1

\* C15 witness: redo re-applied a closure that is neither the first nor the
\* last of the log and that changed the state.
C15_Witness ==
    /\ last = "redo"
    /\ 0 < prev.nb_updates
    /\ prev.nb_updates + 1 < Len(prev.updates)
    /\ prev.updates[prev.nb_updates + 1] # prev.updates[Len(prev.updates)]
    /\ current_state # prev.current_state

\* C16: nb_updates < len(updates) holds only when more undos than redos
\* have taken effect since the latest update (or since construction), so
\* only then can a redo have an effect.
C16_RedoNeedsUndo ==
    /\ nb_updates < Len(updates) => net_undos > 0
    /\ (last = "redo" /\ nb_updates # prev.nb_updates) => net_undos >= 0

\* C16 witness: a redo took effect and more undos than redos have still
\* taken effect since the latest update.
C16_Witness ==
    /\ last = "redo"
    /\ nb_updates = prev.nb_updates + 1
    /\ net_undos > 0
    /\ nb_updates < Len(updates)

\* C17: K undo calls in a row, K <= nb_updates, followed by K redo calls in
\* a row restore current_state, nb_updates and the log to their values
\* before the 2K calls.
C17_UndosThenRedosRestore ==
    (last = "redo" /\ matched # <<>>) => SameAsIn(matched[1])

\* C17 witness: three undos were followed by three redos.
C17_Witness ==
    /\ last = "redo"
    /\ matched # <<>>
    /\ undo_stack = <<>>
    /\ matched[1].nb_updates = nb_updates
    /\ prev.nb_updates + 1 = nb_updates
    /\ prev2.nb_updates + 2 = nb_updates
    /\ nb_updates >= 3
    /\ net_undos = 0

\* C18: with nb_updates < len(updates), redo followed immediately by undo
\* leaves current_state, nb_updates and the log as they were.
C18_RedoUndoPair ==
    (last2 = "redo" /\ last = "undo" /\ prev2.nb_updates < Len(prev2.updates))
        => SameAsIn(prev2)

\* C18 witness: a redo and undo pair was made from the middle of the log
\* and the redo changed the state.
C18_Witness ==
    /\ last2 = "redo"
    /\ last = "undo"
    /\ 0 < prev2.nb_updates
    /\ prev2.nb_updates < Len(prev2.updates)
    /\ prev.current_state # prev2.current_state

\* C19: undo called repeatedly from a state with nb_updates = n reaches
\* nb_updates = 0 and current_state = initial_state after exactly n calls,
\* stays there under further undo calls, and leaves the whole log in place
\* to redo.
C19_RepeatedUndoReachesStart ==
    (last = "undo" /\ run_start # <<>>) =>
        /\ updates = run_start[1].updates
        /\ run_len < run_start[1].nb_updates =>
               nb_updates = run_start[1].nb_updates - run_len
        /\ run_len >= run_start[1].nb_updates =>
               /\ nb_updates = 0
               /\ current_state = initial_state
               /\ ApplyDirectly(current_state,
                                SubSeq(updates, 1, run_start[1].nb_updates))
                      = run_start[1].current_state

\* C19 witness: undo was called more often in a row than there were
\* applied closures, on a state that differed from the initial one.
C19_Witness ==
    /\ last = "undo"
    /\ run_start # <<>>
    /\ run_start[1].nb_updates >= 2
    /\ run_len > run_start[1].nb_updates + 1
    /\ run_start[1].current_state # initial_state

====
